---- MODULE Spec2Model ----
(***************************************************************************)
(* A model of the must_destroy crate (src/src/lib.rs): the guard           *)
(* MustDestroy<T, Args>, its constructor, into_inner, the Destroy          *)
(* implementation with its positional forms, Deref / DerefMut and the      *)
(* Drop hook, driven by a caller scope that owns values and guards.        *)
(*                                                                         *)
(* Rust's ownership is modelled by who holds an item: the caller's scope,  *)
(* a guard's `wrapped` field, or nobody (consumed, forgotten, dropped).    *)
(* A panic starts unwinding, which drops what the scope still holds; a     *)
(* panic raised while unwinding aborts the process.                        *)
(***************************************************************************)
EXTENDS Naturals, Sequences, FiniteSets, TLC

\* ------------------------------------------------------------------ bounds
MaxGuards == 2
MaxData == 1
MaxArg == 1

\* The caller's Destroy value. Guards share no state with one another, so
\* further values would only interleave copies of the same lifecycle.
ValIds == {1}
GuardIds == 1..MaxGuards
DataVals == 0..MaxData
ArgVals == 0..MaxArg

\* The arities the crate gives a positional destroy for (lib.rs 58-86).
MaxArity == 4
Arities == 0..MaxArity

\* ------------------------------------------------------------- references
\* What a `wrapped` field, a parameter or a return value holds.
ValRef(v) == [k |-> "val", id |-> v]
GuardRef(g) == [k |-> "guard", id |-> g]
\* The all-zero bit pattern std::mem::zeroed() produces (lib.rs 44).
ZEROED == [k |-> "zeroed", id |-> 0]
NoRef == [k |-> "none", id |-> 0]
Refs == {ValRef(v) : v \in ValIds} \cup {GuardRef(g) : g \in GuardIds}

\* ---------------------------------------------------------------- messages
DropMsg == "Can not drop, must call destroy."
ZeroMsg == "attempted to zero-initialize a type for which zero is invalid"
DestroyMsg == "assertion failed inside the wrapped destroy"
OtherMsg == "another failure of the caller"

\* What std::mem::zeroed::<T>() does, in one build, for a T whose all-zero
\* bit pattern is not a valid T (undefined behaviour): it yields the
\* placeholder anyway, it panics and unwinds, or it panics without unwinding.
Builds == {"value", "panic", "abort"}

VARIABLES
    build,    \* the build's behaviour of zeroed() on a zero-invalid type
    ty,       \* the wrapped type T: its Args' arity, whether zero is a valid T
    vals,     \* the Destroy values T of the caller
    guards,   \* the MustDestroy guards
    pc,       \* "running", "unwinding", "terminated", "aborted"
    panics,   \* the panic messages raised so far, in order
    seen,     \* what the wrapped type's destroy was last invoked with
    written,  \* per value: the data the caller last gave it
    last      \* the caller's last operation and what it returned

vars == <<build, ty, vals, guards, pc, panics, seen, written, last>>

\* The part of the state the crate's functions read and change.
St ==
    [ty |-> ty, vals |-> vals, guards |-> guards, pc |-> pc,
     panics |-> panics, seen |-> seen]

UnbornVal ==
    [loc |-> "unborn", data |-> 0, ndestroy |-> 0, ndrop |-> 0]

\* No invocation of the wrapped destroy yet.
NotSeen == [v |-> 0, data |-> 0, args |-> <<>>]

UnbornGuard ==
    [state |-> "Unborn", wrapped |-> NoRef, orig |-> NoRef, held |-> "unborn",
     forgotten |-> FALSE, hook |-> 0, ndis |-> 0, zdrop |-> 0]

\* ------------------------------------------------------------------ panics
\* panic!: unwinding starts; a panic raised while unwinding aborts.
Panic(S, msg) ==
    [S EXCEPT !.panics = Append(@, msg),
              !.pc = IF S.pc = "running" THEN "unwinding" ELSE "aborted"]

\* A panic that cannot unwind.
Abort(S, msg) ==
    [S EXCEPT !.panics = Append(@, msg), !.pc = "aborted"]

\* ------------------------------------------------------- type attributes
RECURSIVE BaseOf(_, _)
\* The Destroy value at the bottom of a chain of nested guards (0: none).
BaseOf(S, ref) ==
    CASE ref.k = "val" -> ref.id
      [] ref.k = "guard" -> BaseOf(S, S.guards[ref.id].wrapped)
      [] OTHER -> 0

\* Whether the all-zero bit pattern is a valid T: MustDestroy<T, Args> is T
\* and a PhantomData, so it is zero-valid exactly when T is.
ZeroValid(S, ref) ==
    LET b == BaseOf(S, ref) IN IF b = 0 THEN TRUE ELSE S.ty.zv

\* The number of elements of Args: Destroy<Args> for MustDestroy<T, Args>.
ArityOf(S, ref) ==
    LET b == BaseOf(S, ref) IN IF b = 0 THEN 0 ELSE S.ty.arity

\* ------------------------------------------------------------ Drop (88-92)
\* A hook that stays silent while another panic unwinds.
Drop_drop_QuietWhenPanicking(S, g) ==
    LET S1 == [S EXCEPT !.guards[g].hook = @ + 1, !.guards[g].held = "gone"]
    IN IF S.pc = "running" THEN Panic(S1, DropMsg) ELSE S1

\* A hook that finalizes the wrapped value on the caller's behalf.
Drop_drop_Finalizes(S, g) ==
    LET v == BaseOf(S, GuardRef(g))
        S1 == [S EXCEPT !.guards[g].hook = @ + 1, !.guards[g].held = "gone"]
        S2 == IF v = 0 THEN S1
              ELSE [S1 EXCEPT !.vals[v].ndestroy = @ + 1,
                              !.seen = [v |-> v, data |-> S.vals[v].data,
                                        args |-> <<>>]]
    IN Panic(S2, DropMsg)

\* impl Drop for MustDestroy: the hook panics, unconditionally.
Drop_drop(S, g) ==
    Panic([S EXCEPT !.guards[g].hook = @ + 1, !.guards[g].held = "gone"],
          DropMsg)

RECURSIVE DropRef(_, _)
\* Drop glue of an item going out of scope: a value's ordinary disposal, or
\* a guard's hook followed, while the process still unwinds, by its field
\* (zdrop counts a zeroed placeholder that gets disposed of).
DropRef(S, ref) ==
    CASE ref.k = "val" ->
           [S EXCEPT !.vals[ref.id].ndrop = @ + 1,
                     !.vals[ref.id].loc = "gone"]
      [] ref.k = "guard" ->
           LET S1 == Drop_drop(S, ref.id) IN
           IF S1.pc = "aborted" THEN S1
           ELSE IF S1.guards[ref.id].wrapped.k = "zeroed"
                THEN [S1 EXCEPT !.guards[ref.id].zdrop = @ + 1]
                ELSE DropRef(S1, S1.guards[ref.id].wrapped)
      [] ref.k = "zeroed" -> S
      [] OTHER -> S

\* ------------------------------------------------------------ new (33-38)
\* A new whose guard starts out as already discharged.
new_Discharged(S, g, item) ==
    LET S1 == IF item.k = "val"
              THEN [S EXCEPT !.vals[item.id].loc = "guard"]
              ELSE [S EXCEPT !.guards[item.id].held = "guard"]
    IN [S1 EXCEPT !.guards[g] =
            [UnbornGuard EXCEPT !.state = "Extracted", !.wrapped = item,
                                !.orig = item, !.held = "scope",
                                !.forgotten = TRUE]]

new(S, g, item) ==
    LET S1 == IF item.k = "val"
              THEN [S EXCEPT !.vals[item.id].loc = "guard"]
              ELSE [S EXCEPT !.guards[item.id].held = "guard"]
    IN [S1 EXCEPT !.guards[g] =
            [UnbornGuard EXCEPT !.state = "Live", !.wrapped = item,
                                !.orig = item, !.held = "scope"]]

\* ----------------------------------------------------- into_inner (41-49)
\* std::mem::zeroed() for the wrapped type.
mem_zeroed(S, item, bld) ==
    IF ZeroValid(S, item) THEN "value" ELSE bld

\* An into_inner that borrows the guard instead of consuming it.
into_inner_Borrows(S, g, bld) ==
    [st |-> [S EXCEPT !.guards[g].wrapped = ZEROED,
                      !.guards[g].forgotten = TRUE,
                      !.guards[g].state = "Extracted",
                      !.guards[g].ndis = @ + 1],
     ret |-> S.guards[g].wrapped, ok |-> TRUE]

\* An into_inner without forget(self): the guard, now holding the zeroed
\* placeholder, is dropped when into_inner ends.
into_inner_DropsSelf(S, g, bld) ==
    [st |-> DropRef([S EXCEPT !.guards[g].wrapped = ZEROED,
                              !.guards[g].state = "Extracted",
                              !.guards[g].ndis = @ + 1],
                    GuardRef(g)),
     ret |-> NoRef, ok |-> FALSE]

\* mem::replace(&mut self.wrapped, zeroed()); forget(self); wrapped.
\* Returns the state, the item returned, and whether it returned at all.
into_inner(S, g, bld) ==
    LET item == S.guards[g].wrapped
        z == mem_zeroed(S, item, bld)
    IN CASE z = "value" ->
              [st |-> [S EXCEPT !.guards[g].wrapped = ZEROED,
                                !.guards[g].forgotten = TRUE,
                                !.guards[g].held = "gone",
                                !.guards[g].state = "Extracted",
                                !.guards[g].ndis = @ + 1],
               ret |-> item, ok |-> TRUE]
         [] z = "panic" ->
              \* zeroed() panics while `self` is still owned by into_inner:
              \* unwinding drops the guard, whose hook panics in turn.
              [st |-> DropRef(Panic(S, ZeroMsg), GuardRef(g)),
               ret |-> NoRef, ok |-> FALSE]
         [] OTHER ->
              [st |-> Abort(S, ZeroMsg), ret |-> NoRef, ok |-> FALSE]

\* The caller takes what into_inner returned.
Take(S, item) ==
    CASE item.k = "val" -> [S EXCEPT !.vals[item.id].loc = "scope"]
      [] item.k = "guard" -> [S EXCEPT !.guards[item.id].held = "scope"]
      [] OTHER -> S

\* ------------------------------------------- the wrapped destroy (19-22)
\* What the wrapped type's destroy expects at position i (the test's type
\* asserts a fixed value per position, lib.rs 116-120).
Expected(i) == i % 2

DestroyAccepts(args) == \A i \in DOMAIN args : args[i] = Expected(i)

\* T::destroy(self, args) of a plain value: it consumes the value, which is
\* disposed of when the call ends, by return or by unwinding.
T_destroy(S, v, args) ==
    LET S1 == [S EXCEPT !.vals[v].ndestroy = @ + 1,
                        !.vals[v].ndrop = @ + 1,
                        !.vals[v].loc = "gone",
                        !.seen = [v |-> v, data |-> S.vals[v].data,
                                  args |-> args]]
    IN IF DestroyAccepts(args) THEN S1 ELSE Panic(S1, DestroyMsg)

\* --------------------------------------------- Destroy for guard (52-56)
RECURSIVE Destroy_destroy(_, _, _, _)
\* A guard's destroy that forgets the guard only after the wrapped destroy
\* has returned: a failing wrapped destroy unwinds through the guard.
Destroy_destroy_ForgetsLate(S, item, args, bld) ==
    CASE item.k = "val" -> T_destroy(S, item.id, args)
      [] item.k = "guard" ->
           LET r == into_inner(S, item.id, bld) IN
           IF r.ok
           THEN LET S2 == Destroy_destroy(
                              [r.st EXCEPT !.guards[item.id].state =
                                               "Finalized"],
                              r.ret, args, bld)
                IN IF S2.pc = "running" THEN S2 ELSE Drop_drop(S2, item.id)
           ELSE r.st
      [] OTHER -> S

\* A guard's destroy that extracts the value and lets it go out of scope.
Destroy_destroy_OnlyDrops(S, item, args, bld) ==
    CASE item.k = "val" -> T_destroy(S, item.id, args)
      [] item.k = "guard" ->
           LET r == into_inner(S, item.id, bld) IN
           IF r.ok
           THEN DropRef([r.st EXCEPT !.guards[item.id].state = "Finalized"],
                        r.ret)
           ELSE r.st
      [] OTHER -> S

\* Destroy::destroy(item, args): self.into_inner().destroy(args) on a guard,
\* the wrapped type's own destroy on a value.
Destroy_destroy(S, item, args, bld) ==
    CASE item.k = "val" -> T_destroy(S, item.id, args)
      [] item.k = "guard" ->
           LET r == into_inner(S, item.id, bld) IN
           IF r.ok
           THEN Destroy_destroy(
                    [r.st EXCEPT !.guards[item.id].state = "Finalized"],
                    r.ret, args, bld)
           ELSE r.st
      [] OTHER -> S

\* ------------------------------------------- positional destroy (58-86)
destroy0(S, g, bld) == Destroy_destroy(S, GuardRef(g), <<>>, bld)
destroy1(S, g, arg1, bld) == Destroy_destroy(S, GuardRef(g), <<arg1>>, bld)
destroy2(S, g, arg1, arg2, bld) ==
    Destroy_destroy(S, GuardRef(g), <<arg1, arg2>>, bld)
destroy3(S, g, arg1, arg2, arg3, bld) ==
    Destroy_destroy(S, GuardRef(g), <<arg1, arg2, arg3>>, bld)
destroy4(S, g, arg1, arg2, arg3, arg4, bld) ==
    Destroy_destroy(S, GuardRef(g), <<arg1, arg2, arg3, arg4>>, bld)

\* ------------------------------------------------- Deref / DerefMut (94-106)
\* &self.wrapped
deref(S, g) == S.guards[g].wrapped
\* A deref_mut that hands out a temporary copy of the value.
deref_mut_Copy(S, g) == NoRef

\* &mut self.wrapped
deref_mut(S, g) == S.guards[g].wrapped

RECURSIVE Peek(_, _)
\* Reading the data behind a reference, through nested guards.
Peek(S, ref) ==
    CASE ref.k = "val" -> S.vals[ref.id].data
      [] ref.k = "guard" -> Peek(S, deref(S, ref.id))
      [] OTHER -> 0

RECURSIVE Poke(_, _, _)
\* Writing the data behind a mutable reference, through nested guards.
Poke(S, ref, d) ==
    CASE ref.k = "val" -> [S EXCEPT !.vals[ref.id].data = d]
      [] ref.k = "guard" -> Poke(S, deref_mut(S, ref.id), d)
      [] OTHER -> S

\* =================================================================== Init
Init ==
    /\ ty \in [arity : Arities, zv : BOOLEAN]
    /\ build \in Builds
    /\ ty.zv => build = "value"
    /\ vals = [v \in ValIds |-> UnbornVal]
    /\ guards = [g \in GuardIds |-> UnbornGuard]
    /\ pc = "running"
    /\ panics = <<>>
    /\ seen = NotSeen
    /\ written = [v \in ValIds |-> 0]
    /\ last = [op |-> "init", g |-> 0, v |-> 0, args |-> <<>>, ret |-> NoRef,
               data |-> 0]

Commit(S) ==
    /\ ty' = S.ty
    /\ vals' = S.vals
    /\ guards' = S.guards
    /\ pc' = S.pc
    /\ panics' = S.panics
    /\ seen' = S.seen

Op(op, g, v, args, ret, data) ==
    [op |-> op, g |-> g, v |-> v, args |-> args, ret |-> ret, data |-> data]

\* What the caller's scope holds.
InScope(ref) ==
    \/ ref.k = "val" /\ vals[ref.id].loc = "scope"
    \/ ref.k = "guard" /\ guards[ref.id].held = "scope"

ScopeItems == {r \in Refs : InScope(r)}

Tuples(n) == [1..n -> ArgVals]

\* ================================================================ actions
\* The caller makes a value of the Destroy type T.
CreateValue(v) ==
    /\ pc = "running"
    /\ vals[v].loc = "unborn"
    /\ \A u \in ValIds : u < v => vals[u].loc # "unborn"
    /\ vals' = [vals EXCEPT ![v] =
                   [UnbornVal EXCEPT !.loc = "scope"]]
    /\ written' = [written EXCEPT ![v] = UnbornVal.data]
    /\ last' = Op("create", 0, v, <<>>, ValRef(v), 0)
    /\ UNCHANGED <<build, ty, guards, pc, panics, seen>>

\* MustDestroy::new(item), on a value or a guard the scope holds.
New(g, item) ==
    /\ pc = "running"
    /\ guards[g].state = "Unborn"
    /\ \A h \in GuardIds : h < g => guards[h].state # "Unborn"
    /\ item \in ScopeItems
    /\ Commit(new(St, g, item))
    /\ last' = Op("new", g, BaseOf(St, item), <<>>, GuardRef(g), 0)
    /\ UNCHANGED <<build, written>>

\* A read through the guard: *guard.
Deref(g) ==
    /\ pc = "running"
    /\ GuardRef(g) \in ScopeItems
    /\ last' = Op("deref", g, BaseOf(St, GuardRef(g)), <<>>, deref(St, g),
                  Peek(St, deref(St, g)))
    /\ UNCHANGED <<build, ty, vals, guards, pc, panics, seen, written>>

\* A write through the guard: *guard = d.
DerefMut(g, d) ==
    /\ pc = "running"
    /\ GuardRef(g) \in ScopeItems
    /\ Commit(Poke(St, deref_mut(St, g), d))
    /\ written' = [written EXCEPT ![BaseOf(St, GuardRef(g))] = d]
    /\ last' = Op("deref_mut", g, BaseOf(St, GuardRef(g)), <<>>,
                  deref_mut(St, g), d)
    /\ UNCHANGED build

\* guard.into_inner(): the caller keeps what it returns.
IntoInner(g) ==
    /\ pc = "running"
    /\ GuardRef(g) \in ScopeItems
    /\ LET r == into_inner(St, g, build) IN
       /\ Commit(IF r.ok THEN Take(r.st, r.ret) ELSE r.st)
       /\ last' = Op("into_inner", g, BaseOf(St, GuardRef(g)), <<>>, r.ret, 0)
    /\ UNCHANGED <<build, written>>

\* Destroy::destroy(guard, args): the structured-tuple form.
DestroyTuple(g, args) ==
    /\ pc = "running"
    /\ GuardRef(g) \in ScopeItems
    /\ args \in Tuples(ArityOf(St, GuardRef(g)))
    /\ Commit(Destroy_destroy(St, GuardRef(g), args, build))
    /\ last' = Op("destroy", g, BaseOf(St, GuardRef(g)), args, NoRef, 0)
    /\ UNCHANGED <<build, written>>

\* guard.destroy(): MustDestroy<T, ()>.
Destroy0(g) ==
    /\ pc = "running"
    /\ GuardRef(g) \in ScopeItems
    /\ ArityOf(St, GuardRef(g)) = 0
    /\ Commit(destroy0(St, g, build))
    /\ last' = Op("destroy0", g, BaseOf(St, GuardRef(g)), <<>>, NoRef, 0)
    /\ UNCHANGED <<build, written>>

\* guard.destroy(a1): MustDestroy<T, (A1,)>.
Destroy1(g, a1) ==
    /\ pc = "running"
    /\ GuardRef(g) \in ScopeItems
    /\ ArityOf(St, GuardRef(g)) = 1
    /\ Commit(destroy1(St, g, a1, build))
    /\ last' = Op("destroy1", g, BaseOf(St, GuardRef(g)), <<a1>>, NoRef, 0)
    /\ UNCHANGED <<build, written>>

\* guard.destroy(a1, a2): MustDestroy<T, (A1, A2)>.
Destroy2(g, a1, a2) ==
    /\ pc = "running"
    /\ GuardRef(g) \in ScopeItems
    /\ ArityOf(St, GuardRef(g)) = 2
    /\ Commit(destroy2(St, g, a1, a2, build))
    /\ last' = Op("destroy2", g, BaseOf(St, GuardRef(g)), <<a1, a2>>,
                  NoRef, 0)
    /\ UNCHANGED <<build, written>>

\* guard.destroy(a1, a2, a3): MustDestroy<T, (A1, A2, A3)>.
Destroy3(g, a1, a2, a3) ==
    /\ pc = "running"
    /\ GuardRef(g) \in ScopeItems
    /\ ArityOf(St, GuardRef(g)) = 3
    /\ Commit(destroy3(St, g, a1, a2, a3, build))
    /\ last' = Op("destroy3", g, BaseOf(St, GuardRef(g)), <<a1, a2, a3>>,
                  NoRef, 0)
    /\ UNCHANGED <<build, written>>

\* guard.destroy(a1, a2, a3, a4): MustDestroy<T, (A1, A2, A3, A4)>.
Destroy4(g, a1, a2, a3, a4) ==
    /\ pc = "running"
    /\ GuardRef(g) \in ScopeItems
    /\ ArityOf(St, GuardRef(g)) = 4
    /\ Commit(destroy4(St, g, a1, a2, a3, a4, build))
    /\ last' = Op("destroy4", g, BaseOf(St, GuardRef(g)), <<a1, a2, a3, a4>>,
                  NoRef, 0)
    /\ UNCHANGED <<build, written>>

\* The caller calls the wrapped type's destroy on a value it holds itself.
DirectDestroy(v, args) ==
    /\ pc = "running"
    /\ ValRef(v) \in ScopeItems
    /\ args \in Tuples(ty.arity)
    /\ Commit(T_destroy(St, v, args))
    /\ last' = Op("direct", 0, v, args, NoRef, 0)
    /\ UNCHANGED <<build, written>>

\* An item of the scope is dropped or goes out of scope.
DropItem(item) ==
    /\ pc = "running"
    /\ item \in ScopeItems
    /\ Commit(DropRef(St, item))
    /\ last' = Op("drop", IF item.k = "guard" THEN item.id ELSE 0,
                  BaseOf(St, item), <<>>, item, 0)
    /\ UNCHANGED <<build, written>>

\* Code of the caller fails for a reason of its own.
OtherPanic ==
    /\ pc = "running"
    /\ Commit(Panic(St, OtherMsg))
    /\ last' = Op("panic", 0, 0, <<>>, NoRef, 0)
    /\ UNCHANGED <<build, written>>

\* Unwinding drops one more item of the failing scope.
UnwindStep(item) ==
    /\ pc = "unwinding"
    /\ item \in ScopeItems
    /\ Commit(DropRef(St, item))
    /\ last' = Op("unwind", IF item.k = "guard" THEN item.id ELSE 0,
                  BaseOf(St, item), <<>>, item, 0)
    /\ UNCHANGED <<build, written>>

\* Unwinding has emptied the scope: the panic leaves it.
UnwindDone ==
    /\ pc = "unwinding"
    /\ ScopeItems = {}
    /\ pc' = "terminated"
    /\ last' = Op("unwound", 0, 0, <<>>, NoRef, 0)
    /\ UNCHANGED <<build, ty, vals, guards, panics, seen, written>>

Next ==
    \/ \E v \in ValIds : CreateValue(v)
    \/ \E g \in GuardIds, item \in Refs : New(g, item)
    \/ \E g \in GuardIds : Deref(g)
    \/ \E g \in GuardIds, d \in DataVals : DerefMut(g, d)
    \/ \E g \in GuardIds : IntoInner(g)
    \/ \E g \in GuardIds, args \in UNION {Tuples(n) : n \in Arities} :
           DestroyTuple(g, args)
    \/ \E g \in GuardIds : Destroy0(g)
    \/ \E g \in GuardIds, a1 \in ArgVals : Destroy1(g, a1)
    \/ \E g \in GuardIds, a1, a2 \in ArgVals : Destroy2(g, a1, a2)
    \/ \E g \in GuardIds, a1, a2, a3 \in ArgVals : Destroy3(g, a1, a2, a3)
    \/ \E g \in GuardIds, a1, a2, a3, a4 \in ArgVals :
           Destroy4(g, a1, a2, a3, a4)
    \/ \E v \in ValIds, args \in UNION {Tuples(n) : n \in Arities} :
           DirectDestroy(v, args)
    \/ \E item \in Refs : DropItem(item)
    \/ OtherPanic
    \/ \E item \in Refs : UnwindStep(item)
    \/ UnwindDone

Spec == Init /\ [][Next]_vars

TypeOK ==
    /\ build \in Builds
    /\ pc \in {"running", "unwinding", "terminated", "aborted"}
    /\ \A v \in ValIds : vals[v].loc \in {"unborn", "scope", "guard", "gone"}
    /\ \A g \in GuardIds :
           /\ guards[g].state \in {"Unborn", "Live", "Finalized", "Extracted"}
           /\ guards[g].held \in {"unborn", "scope", "guard", "gone"}

\* ================================================================= claims
DestroyOps ==
    {"destroy", "destroy0", "destroy1", "destroy2", "destroy3", "destroy4"}
PositionalOps == DestroyOps \ {"destroy"}

\* Guard g was disposed of while the finalization was still owed.
Disposed(g) == guards[g].state = "Live" /\ guards[g].held = "gone"

DropMsgs == {i \in DOMAIN panics : panics[i] = DropMsg}

\* What a caller can observe of a state: the values, what the wrapped
\* destroy saw, how the process goes on, the panics, the hooks that ran.
Obs(S) == [vals |-> S.vals, seen |-> S.seen, pc |-> S.pc, panics |-> S.panics]
Hooks(S) == [g \in GuardIds |-> S.guards[g].hook]

\* Value v was put in a guard at some time.
EverWrapped(v) == \E g \in GuardIds : guards[g].orig = ValRef(v)
\* into_inner handed value v itself back to the caller at some time.
Released(v) ==
    \E g \in GuardIds :
        guards[g].orig = ValRef(v) /\ guards[g].state = "Extracted"

\* C1: every guard that is disposed of without destroy or into_inner has run
\* its disposal hook, which raised "Can not drop, must call destroy.": one
\* such panic per disposed guard, and the process no longer runs normally.
C1_DisposalPanics ==
    /\ \A g \in GuardIds :
           Disposed(g) => guards[g].hook = 1 /\ pc # "running"
    /\ Cardinality(DropMsgs) = Cardinality({g \in GuardIds : Disposed(g)})

\* C1 witness: a guard the caller wrote through and then dropped.
C1_Witness ==
    \E g \in GuardIds :
        /\ Disposed(g)
        /\ last.op = "drop" /\ last.g = g
        /\ written[last.v] # UnbornVal.data
        /\ panics = <<DropMsg>>

\* C2: destroy(args) on a Live guard whose wrapped destroy accepts args
\* completes without any failure, invokes the wrapped destroy, and no
\* disposal hook runs for the guard, neither then nor later.
C2_DestroyNeverFails ==
    /\ (last.op \in DestroyOps /\ DestroyAccepts(last.args)) =>
           /\ pc = "running" /\ panics = <<>>
           /\ vals[last.v].ndestroy = 1
           /\ \A g \in GuardIds : guards[g].hook = 0
    /\ \A g \in GuardIds : guards[g].state = "Finalized" => guards[g].hook = 0

\* C3: destroy(args) on a guard made by new(v) leaves exactly what
\* v.destroy(args) called directly leaves: the same invocation of the wrapped
\* destroy, the same outcome, and no hook run.
C3_SameAsDirect ==
    [][(last'.op \in DestroyOps /\ guards[last'.g].wrapped = ValRef(last'.v))
          => /\ Obs(St') = Obs(T_destroy(St, last'.v, last'.args))
             /\ Hooks(St') = Hooks(St)]_vars

\* C4: into_inner returns the item the guard held, with the data last
\* written, to the caller; no panic, no hook, no wrapped destroy; and the
\* caller may then drop the raw value without any panic.
C4_IntoInnerReturns ==
    /\ last.op = "into_inner" =>
           /\ pc = "running" /\ panics = <<>>
           /\ guards[last.g].state = "Extracted"
           /\ guards[last.g].hook = 0
           /\ last.ret = guards[last.g].orig
           /\ InScope(last.ret)
           /\ Peek(St, last.ret) = written[last.v]
           /\ vals[last.v].ndestroy = 0
    /\ (last.op = "drop" /\ last.ret.k = "val") =>
           pc = "running" /\ panics = <<>>

\* C5: destroy(args) on a guard leaves what into_inner followed by destroy
\* (args) on the returned item leaves; the wrapped destroy is invoked exactly
\* once with the value and args, and no disposal hook fires.
C5_ExtractThenDestroy ==
    [][last'.op \in DestroyOps =>
          LET r == into_inner(St, last'.g, build)
              two == IF r.ok
                     THEN Destroy_destroy(Take(r.st, r.ret), r.ret,
                                          last'.args, build)
                     ELSE r.st
          IN /\ Obs(St') = Obs(two)
             /\ Hooks(St') = Hooks(two)
             /\ vals'[last'.v].ndestroy = 1
             /\ seen' = [v |-> last'.v, data |-> written[last'.v],
                         args |-> last'.args]
             /\ \A g \in GuardIds : guards'[g].hook = 0]_vars

\* C6 as claimed: with no contract-violation panic raised, every value that
\* was wrapped and has ceased to exist had its destroy invoked exactly once.
C6_ExactlyOnce ==
    DropMsgs = {} =>
        \A v \in ValIds :
            (EverWrapped(v) /\ vals[v].loc = "gone") => vals[v].ndestroy = 1

\* C6 as amended: with no contract-violation panic raised, every value that
\* was wrapped and has ceased to exist had its destroy invoked at most once,
\* and exactly once unless into_inner handed the value back to the caller.
C6_OnceUnlessReleased ==
    DropMsgs = {} =>
        \A v \in ValIds :
            (EverWrapped(v) /\ vals[v].loc = "gone") =>
                /\ vals[v].ndestroy <= 1
                /\ ~Released(v) => vals[v].ndestroy = 1

\* C6 witness: a wrapped value finalized through its guard, no panic raised.
C6_Witness ==
    \E v \in ValIds, g \in GuardIds :
        /\ guards[g].orig = ValRef(v) /\ guards[g].state = "Finalized"
        /\ ~Released(v)
        /\ vals[v].loc = "gone" /\ vals[v].ndestroy = 1
        /\ panics = <<>>

\* C7: when the wrapped destroy fails inside the guard's destroy, its panic
\* is the only panic raised: the guard, forgotten before the wrapped destroy
\* started, runs no hook and adds no contract-violation panic.
C7_FailurePropagates ==
    (/\ last.op \in DestroyOps
     /\ vals[last.v].ndestroy = 1
     /\ ~DestroyAccepts(last.args)) =>
        /\ panics = <<DestroyMsg>>
        /\ pc = "unwinding"
        /\ guards[last.g].forgotten
        /\ \A g \in GuardIds : guards[g].hook = 0

\* C7 witness: a guard's destroy whose wrapped destroy rejected the args.
C7_Witness ==
    /\ last.op \in DestroyOps
    /\ vals[last.v].ndestroy = 1
    /\ seen.args = last.args
    /\ ~DestroyAccepts(last.args)
    /\ pc = "unwinding"

\* C8: a read through a guard returns the data last written; the wrapped
\* destroy is invoked on the value with the data last written; into_inner
\* returns the value with the data last written.
C8_OneUnderlyingValue ==
    /\ last.op = "deref" => last.data = written[last.v]
    /\ last.op = "deref_mut" => vals[last.v].data = last.data
    /\ seen.v # 0 => seen.data = written[seen.v]
    /\ (last.op = "into_inner" /\ last.ret.k # "none") =>
           /\ BaseOf(St, last.ret) = last.v
           /\ Peek(St, last.ret) = written[last.v]

\* C8 witness: the wrapped destroy invoked, through a guard, on a value the
\* caller had changed through the guard.
C8_Witness ==
    /\ last.op \in DestroyOps
    /\ seen.v = last.v
    /\ seen.data = written[last.v]
    /\ seen.data # UnbornVal.data

\* C9: a guard is Unborn, Live, Finalized or Extracted; its state changes
\* only from Unborn to Live by new, from Live to Finalized by a destroy and
\* from Live to Extracted by into_inner on it; no guard is discharged twice,
\* and only a Live guard is ever in the caller's hands.
C9_Lifecycle ==
    /\ [](\A g \in GuardIds :
              /\ guards[g].state \in {"Unborn", "Live", "Finalized", "Extracted"}
              /\ guards[g].ndis <= 1
              /\ guards[g].ndis = 1 <=>
                     guards[g].state \in {"Finalized", "Extracted"}
              /\ guards[g].held \in {"scope", "guard"} =>
                     guards[g].state = "Live")
    /\ [][\A g \in GuardIds :
              guards[g].state # guards'[g].state =>
                  \/ /\ guards[g].state = "Unborn"
                     /\ guards'[g].state = "Live"
                     /\ last'.op = "new" /\ last'.g = g
                  \/ /\ guards[g].state = "Live"
                     /\ guards'[g].state = "Finalized"
                     /\ last'.op \in DestroyOps
                  \/ /\ guards[g].state = "Live"
                     /\ guards'[g].state = "Extracted"
                     /\ last'.op = "into_inner" /\ last'.g = g]_vars

\* C9 witness: one guard Extracted, then another Finalized.
C9_Witness ==
    \E g, h \in GuardIds :
        /\ guards[g].state = "Extracted"
        /\ guards[h].state = "Finalized"
        /\ pc = "running"

\* C10: a positional destroy leaves exactly what Destroy::destroy on the
\* guard with the tuple of the same arguments in the same order leaves, the
\* wrapped destroy is invoked exactly once, with those arguments, and the
\* guard is discharged.
C10_PositionalIsTuple ==
    [][last'.op \in PositionalOps =>
          /\ St' = Destroy_destroy(St, GuardRef(last'.g), last'.args, build)
          /\ vals'[last'.v].ndestroy = 1
          /\ seen'.args = last'.args
          /\ guards'[last'.g].state = "Finalized"]_vars

\* C11: the zeroed placeholder left in a guard's slot is never disposed of;
\* into_inner runs no disposal of the wrapped value; a guard's destroy
\* disposes of the value only inside the wrapped destroy it invokes; and
\* the value's own disposal runs at most once in the whole execution.
C11_ExtractionDropsNothing ==
    /\ \A g \in GuardIds : guards[g].zdrop = 0
    /\ \A g \in GuardIds : guards[g].wrapped = ZEROED => guards[g].forgotten
    /\ \A v \in ValIds : vals[v].ndrop <= 1
    /\ last.op = "into_inner" => vals[last.v].ndrop = 0
    /\ last.op \in DestroyOps => vals[last.v].ndrop = vals[last.v].ndestroy

\* C11 witness: a guard's destroy done, the placeholder forgotten in its
\* slot, the value disposed of once, by the wrapped destroy.
C11_Witness ==
    /\ last.op \in DestroyOps
    /\ guards[last.g].wrapped = ZEROED
    /\ guards[last.g].forgotten
    /\ vals[last.v].ndrop = 1
    /\ vals[last.v].ndestroy = 1

\* C12: new, a read and a write through a guard raise no panic, invoke no
\* wrapped destroy and dispose of nothing; they change no guard's lifecycle
\* state but new's own guard, which becomes Live; afterwards the guard is
\* Live in the caller's hands and dropping it would still run its hook and
\* raise "Can not drop, must call destroy.".
C12_AccessKeepsObligation ==
    [][last'.op \in {"new", "deref", "deref_mut"} =>
          LET g == last'.g
              D == DropRef(St', GuardRef(g))
          IN /\ pc' = "running" /\ panics' = panics /\ seen' = seen
             /\ \A v \in ValIds :
                    /\ vals'[v].ndestroy = vals[v].ndestroy
                    /\ vals'[v].ndrop = vals[v].ndrop
             /\ guards'[g].state = "Live" /\ guards'[g].held = "scope"
             /\ ~guards'[g].forgotten
             /\ \A h \in GuardIds \ {g} : guards'[h].state = guards[h].state
             /\ last'.op # "new" => guards' = guards
             /\ last'.op = "new" => guards[g].state = "Unborn"
             /\ D.pc # "running"
             /\ D.guards[g].hook = 1
             /\ D.panics[Len(panics') + 1] = DropMsg
             /\ \A v \in ValIds : D.vals[v].ndestroy = vals[v].ndestroy]_vars

\* C12 witness: a guard still Live in the caller's hands after a write and
\* a read through it.
C12_Witness ==
    /\ last.op = "deref"
    /\ last.data # UnbornVal.data
    /\ guards[last.g].state = "Live"
    /\ guards[last.g].held = "scope"
    /\ pc = "running"

\* C13: a Live guard that unwinding disposes of runs its hook, which raises
\* "Can not drop, must call destroy." on top of the failure already
\* propagating, and the process aborts; unwinding leaves no item of the
\* scope undisposed, so a panic leaves the scope only if no guard was
\* disposed of while it unwound.
C13_NoSuppressionWhileUnwinding ==
    /\ (last.op = "unwind" /\ last.g # 0) =>
           /\ pc = "aborted"
           /\ guards[last.g].hook = 1
           /\ Len(panics) >= 2
           /\ panics[Len(panics)] = DropMsg
    /\ pc = "terminated" =>
           /\ ScopeItems = {}
           /\ DropMsgs \subseteq {1}

\* C13 witness: the caller failed on its own while holding a Live guard,
\* and unwinding raised the guard's panic on top.
C13_Witness ==
    /\ last.op = "unwind" /\ last.g # 0
    /\ panics = <<OtherMsg, DropMsg>>
    /\ pc = "aborted"

\* C14: the wrapped value of a guard that was disposed of while Live has
\* never had its destroy invoked; the number of invocations of the wrapped
\* destroy changes only in a destroy on a guard or in the caller's own call
\* on a value it holds, and never in a drop or in unwinding.
C14_DisposalNeverFinalizes ==
    /\ [](\A g \in GuardIds :
              Disposed(g) =>
                  /\ BaseOf(St, GuardRef(g)) # 0
                  /\ vals[BaseOf(St, GuardRef(g))].ndestroy = 0)
    /\ [][\A v \in ValIds :
              vals'[v].ndestroy # vals[v].ndestroy =>
                  /\ last'.op \in DestroyOps \cup {"direct"}
                  /\ last'.v = v
                  /\ seen'.v = v]_vars

\* C14 witness: a guard dropped by the caller, its hook run, its value
\* disposed of with the drop, the wrapped destroy never invoked.
C14_Witness ==
    \E g \in GuardIds :
        /\ Disposed(g)
        /\ guards[g].hook = 1
        /\ last.op = "drop" /\ last.g = g
        /\ vals[last.v].ndestroy = 0
        /\ vals[last.v].ndrop = 1
        /\ seen = NotSeen

\* C15: destroy(args) on a guard that wraps a guard discharges both guards,
\* invokes the value's destroy exactly once with args and raises no
\* contract-violation panic; into_inner on it returns the inner guard, Live
\* and in the caller's hands, and dropping that guard would still raise
\* "Can not drop, must call destroy.".
C15_GuardsNest ==
    /\ (last.op \in DestroyOps /\ guards[last.g].orig.k = "guard") =>
           /\ guards[last.g].state = "Finalized"
           /\ guards[guards[last.g].orig.id].state = "Finalized"
           /\ vals[last.v].ndestroy = 1
           /\ seen = [v |-> last.v, data |-> written[last.v],
                      args |-> last.args]
           /\ DropMsgs = {}
           /\ \A g \in GuardIds : guards[g].hook = 0
    /\ (last.op = "into_inner" /\ guards[last.g].orig.k = "guard") =>
           LET inner == guards[last.g].orig.id
               D == DropRef(St, GuardRef(inner))
           IN /\ last.ret = GuardRef(inner)
              /\ guards[last.g].state = "Extracted"
              /\ guards[inner].state = "Live"
              /\ guards[inner].held = "scope"
              /\ panics = <<>>
              /\ vals[last.v].ndestroy = 0
              /\ D.guards[inner].hook = 1
              /\ D.panics = <<DropMsg>>

====
